---- MODULE Spec2Model ----
(***************************************************************************)
(* Model of the Speech Analysis App (src/app.py).                          *)
(*                                                                         *)
(* The script is re-executed top to bottom on every user interaction (a    *)
(* "run").  Two pieces of state outlive a run: the file topic_model.pkl    *)
(* (variable artifact) and the process-wide st.cache_resource entry of     *)
(* load_model (variable cache).  Everything else is rebuilt by each run.   *)
(*                                                                         *)
(* Four specifications:                                                    *)
(*   Spec       the runs of the script, section by section                 *)
(*   SpecScore  the scoring block (relevant_topics) as a pure function     *)
(*   SpecNorm   preprocess_text as a pure function on token sequences      *)
(*   SpecWords  get_topic_words as a pure function                         *)
(***************************************************************************)
EXTENDS Integers, Sequences, FiniteSets, TLC

VARIABLES
    pc,            \* position of the current run in the script
    df,            \* the dataset of the current run (lines 109-125)
    vectorizer,    \* run-local name `vectorizer` (None or the dataset it was fit on)
    lda,           \* run-local name `lda`
    topic_words,   \* run-local name `topic_words`
    artifact,      \* the file topic_model.pkl
    cache,         \* the st.cache_resource entry of load_model
    run,           \* what the current run has done so far (observation record)
    doc_topics,    \* SpecScore: the topic-strength vector
    thresholds,    \* SpecScore: <<t1, t2>>
    relevant,      \* SpecScore / Spec: the displayed relevant_topics[:3]
    counts,        \* SpecScore: <<number returned with t1, number returned with t2>>
    text,          \* SpecNorm: the input token sequence
    once,          \* SpecNorm: preprocess_text(text)
    twice,         \* SpecNorm: preprocess_text(preprocess_text(text))
    components,    \* SpecWords: model.components_ (topics x features weights)
    n_top_words,   \* SpecWords: parameter of get_topic_words
    words          \* SpecWords: the returned topic_words

vars == <<pc, df, vectorizer, lda, topic_words, artifact, cache, run,
          doc_topics, thresholds, relevant, counts, text, once, twice,
          components, n_top_words, words>>

scoreVars == <<doc_topics, thresholds, counts>>
normVars  == <<text, once, twice>>
wordVars  == <<components, n_top_words, words>>
pureVars  == <<scoreVars, normVars, wordVars>>

-----------------------------------------------------------------------------
(* Bounds *)

NDatasets == 2       \* distinct uploadable datasets
NTopics == 4         \* length of a topic-strength vector (n_topics is 25 in the code)
MaxStrength == 3     \* strengths are 0..MaxStrength, in tenths

-----------------------------------------------------------------------------
(* Values *)

None == 0
Datasets == 1..NDatasets

\* (vectorizer, lda, topic_words) fit on dataset d; the fit is deterministic
\* (random_state=42), so the bundle is a function of the dataset.
Bundle(d) == <<d, d, d>>
NoBundle == <<None, None, None>>

Absent == [exists |-> FALSE, readable |-> FALSE, bundle |-> NoBundle]
Corrupt == [exists |-> TRUE, readable |-> FALSE, bundle |-> NoBundle]
Stored(b) == [exists |-> TRUE, readable |-> TRUE, bundle |-> b]

EmptyCache == [filled |-> FALSE, value |-> NoBundle]
Cached(b) == [filled |-> TRUE, value |-> b]

\* What fitting the corpus of a dataset does (lines 69-86): the fit succeeds,
\* fit_transform raises ValueError, or it leaves an empty vocabulary.
CorpusKinds == {"ok", "value_error", "empty_vocabulary"}

NoDf == [loaded |-> FALSE, id |-> None, has_column |-> FALSE,
         corpus |-> "ok", text_empty |-> FALSE]

Uploads ==
    {NoDf} \cup [loaded : {TRUE}, id : Datasets, has_column : BOOLEAN,
                 corpus : CorpusKinds, text_empty : BOOLEAN]

FreshRun == [branch |-> "none", trained_on |-> None, saves |-> 0, loads |-> 0,
             reads |-> 0, scored |-> FALSE, sentiment |-> FALSE,
             sections |-> FALSE, diag |-> {}]

Between == {"idle", "done", "aborted"}

-----------------------------------------------------------------------------
(* Scoring block, lines 189-197 *)

RelevanceThreshold == 1      \* 0.1, in tenths (line 189)
TopK == 3                    \* relevant_topics[:3] (line 194)

Strengths == 0..MaxStrength
TopicVectors == [1..NTopics -> Strengths]

\* enumerate(doc_topics): the pairs (i, strength) in index order
Enumerate(v) == [i \in 1..Len(v) |-> <<i, v[i]>>]

FilterTopicsAtLeast(v, threshold) ==
    SelectSeq(Enumerate(v), LAMBDA p : p[2] >= threshold)

FilterTopicsBelow(v, threshold) ==
    SelectSeq(Enumerate(v), LAMBDA p : p[2] < threshold)

\* line 190: [(i, strength) for ... if strength > relevance_threshold]
FilterTopics(v, threshold) ==
    SelectSeq(Enumerate(v), LAMBDA p : p[2] > threshold)

\* Position of p in a sequence already sorted by non-increasing strength:
\* after every element at least as strong (the sort is stable).
InsertDesc(p, s) ==
    LET k == Cardinality({j \in 1..Len(s) : s[j][2] >= p[2]})
    IN  SubSeq(s, 1, k) \o <<p>> \o SubSeq(s, k + 1, Len(s))

RECURSIVE SortDescFrom(_, _, _)
SortDescFrom(s, i, acc) ==
    IF i > Len(s) THEN acc ELSE SortDescFrom(s, i + 1, InsertDesc(s[i], acc))

\* line 191: relevant_topics.sort(key=lambda x: x[1], reverse=True)
SortByStrength(s) == SortDescFrom(s, 1, <<>>)

\* s[:k]
Take(s, k) == SubSeq(s, 1, IF Len(s) < k THEN Len(s) ELSE k)

\* lines 190-194: what the scoring block displays for a strength vector
ScoreTopics(v, threshold) ==
    Take(SortByStrength(FilterTopics(v, threshold)), TopK)

\* lines 189-197: the entries written, or the "no strong topics" message
ScoringDisplay(v) ==
    LET shown == ScoreTopics(v, RelevanceThreshold)
    IN  [relevant |-> shown,
         diag |-> IF shown = <<>> THEN {"no_strong_topics"} ELSE {}]

-----------------------------------------------------------------------------
(* Topic-model functions, lines 58-102 *)

Diagnose(r, d) == [r EXCEPT !.diag = @ \cup d]

train_topic_model_uncaught(d) ==
    IF d.corpus = "ok"
    THEN [raised |-> FALSE, value |-> <<d.id, d.id>>, diag |-> {}]
    ELSE [raised |-> TRUE, value |-> <<None, None>>, diag |-> {}]

\* lines 58-86.  The result is the pair (vectorizer, lda), (None, None) after a
\* reported failure.  raised: an exception leaves the function; the ValueError
\* of fit_transform is caught at line 71, so none of the corpora raises.
train_topic_model(d) ==
    CASE d.corpus = "value_error" ->
            [raised |-> FALSE, value |-> <<None, None>>,
             diag |-> {"error_in_vectorization"}]
      [] d.corpus = "empty_vocabulary" ->
            [raised |-> FALSE, value |-> <<None, None>>,
             diag |-> {"error_empty_vocabulary"}]
      [] OTHER ->
            [raised |-> FALSE, value |-> <<d.id, d.id>>, diag |-> {}]

\* lines 95-97: the file is (re)written with the bundle
save_model(v, l, tw) == Stored(<<v, l, tw>>)

\* lines 99-102 under st.cache_resource: the body runs on a cache miss only,
\* its result is kept for the life of the process; an exception is not cached.
load_model ==
    IF cache.filled
    THEN [raised |-> FALSE, value |-> cache.value, read |-> FALSE, cache |-> cache]
    ELSE IF artifact.exists /\ artifact.readable
         THEN [raised |-> FALSE, value |-> artifact.bundle, read |-> TRUE,
               cache |-> Cached(artifact.bundle)]
         ELSE [raised |-> TRUE, value |-> NoBundle, read |-> TRUE, cache |-> cache]

-----------------------------------------------------------------------------
(* One run of the script, lines 106-224 *)

\* lines 106-125: the upload widget and the reading of the file
StartRun ==
    /\ pc \in Between
    /\ \E u \in Uploads, how \in {"no_file", "unsupported", "read_error", "read"} :
          /\ (how = "read") = u.loaded
          /\ df' = u
          /\ run' = Diagnose(FreshRun,
                       CASE how = "unsupported" -> {"error_unsupported_file_type"}
                         [] how = "read_error" -> {"error_loading_file"}
                         [] OTHER -> {})
    /\ vectorizer' = None
    /\ lda' = None
    /\ topic_words' = None
    /\ relevant' = <<>>
    /\ pc' = "schema"
    /\ UNCHANGED <<artifact, cache, pureVars>>

SchemaCheckLenient ==
    /\ pc = "schema"
    /\ IF ~df.loaded
       THEN /\ run' = Diagnose(run, {"info_please_upload"})
            /\ pc' = "done"
       ELSE IF df.text_empty
       THEN /\ run' = Diagnose(run, {"warning_empty_transcript"})
            /\ pc' = "done"
       ELSE /\ run' = Diagnose(run, {"success_dataset_loaded"})
            /\ pc' = "sections"
    /\ UNCHANGED <<df, vectorizer, lda, topic_words, artifact, cache, relevant, pureVars>>

\* lines 127-140 and 221-224: dataset present, column present, transcript non-empty
SchemaCheck ==
    /\ pc = "schema"
    /\ IF ~df.loaded
       THEN /\ run' = Diagnose(run, {"info_please_upload"})
            /\ pc' = "done"
       ELSE IF ~df.has_column
       THEN /\ run' = Diagnose(run, {"error_no_speech_in_text_column"})
            /\ pc' = "done"
       ELSE IF df.text_empty
       THEN /\ run' = Diagnose(run, {"success_dataset_loaded", "warning_empty_transcript"})
            /\ pc' = "done"
       ELSE /\ run' = Diagnose(run, {"success_dataset_loaded"})
            /\ pc' = "sections"
    /\ UNCHANGED <<df, vectorizer, lda, topic_words, artifact, cache, relevant, pureVars>>

\* lines 141-165: word cloud, named entities, top persons and organizations
FirstSections ==
    /\ pc = "sections"
    /\ run' = [run EXCEPT !.sections = TRUE]
    /\ pc' = "topic"
    /\ UNCHANGED <<df, vectorizer, lda, topic_words, artifact, cache, relevant, pureVars>>


ModelExistsForDataset == artifact.exists /\ artifact.bundle = Bundle(df.id)

\* line 170: os.path.exists('topic_model.pkl')
ModelExists == artifact.exists

\* lines 170-178: no artifact, train on the full dataset and persist on success
TopicTrain ==
    /\ pc = "topic"
    /\ ~ModelExists
    /\ LET t == train_topic_model(df)
           r == [run EXCEPT !.branch = "train", !.trained_on = df.id]
       IN  IF t.raised
           THEN /\ run' = Diagnose(r, {"exception"})
                /\ pc' = "aborted"
                /\ UNCHANGED <<vectorizer, lda, topic_words, artifact>>
           ELSE /\ vectorizer' = t.value[1]
                /\ lda' = t.value[2]
                /\ IF t.value[1] # None /\ t.value[2] # None
                   THEN \* get_topic_words of the fitted model, then save_model
                        /\ topic_words' = t.value[2]
                        /\ artifact' = save_model(t.value[1], t.value[2], t.value[2])
                        /\ run' = Diagnose([r EXCEPT !.saves = @ + 1], t.diag)
                   ELSE /\ run' = Diagnose(r, t.diag \cup {"error_failed_to_train"})
                        /\ UNCHANGED <<topic_words, artifact>>
                /\ pc' = "score"
    /\ UNCHANGED <<df, cache, relevant, pureVars>>

TopicLoadAndResave ==
    /\ pc = "topic"
    /\ ModelExists
    /\ LET l == load_model
           r == [run EXCEPT !.branch = "load", !.loads = @ + 1,
                            !.reads = @ + (IF l.read THEN 1 ELSE 0)]
       IN  IF l.raised
           THEN /\ run' = Diagnose(r, {"exception"})
                /\ pc' = "aborted"
                /\ UNCHANGED <<vectorizer, lda, topic_words, cache, artifact>>
           ELSE /\ vectorizer' = l.value[1]
                /\ lda' = l.value[2]
                /\ topic_words' = l.value[3]
                /\ cache' = l.cache
                /\ artifact' = save_model(df.id, df.id, df.id)
                /\ run' = [r EXCEPT !.saves = @ + 1]
                /\ pc' = "score"
    /\ UNCHANGED <<df, relevant, pureVars>>

\* lines 179-181: the artifact exists, unpack what load_model returns
TopicLoad ==
    /\ pc = "topic"
    /\ ModelExists
    /\ LET l == load_model
           r == [run EXCEPT !.branch = "load", !.loads = @ + 1,
                            !.reads = @ + (IF l.read THEN 1 ELSE 0)]
       IN  IF l.raised
           THEN /\ run' = Diagnose(r, {"exception"})
                /\ pc' = "aborted"
                /\ UNCHANGED <<vectorizer, lda, topic_words, cache>>
           ELSE /\ vectorizer' = l.value[1]
                /\ lda' = l.value[2]
                /\ topic_words' = l.value[3]
                /\ cache' = l.cache
                /\ run' = r
                /\ pc' = "score"
    /\ UNCHANGED <<df, artifact, relevant, pureVars>>

\* lines 183-197: score the selected transcript when a model is at hand
Scoring ==
    /\ pc = "score"
    /\ IF vectorizer # None /\ lda # None
       THEN \E v \in TopicVectors :
               /\ relevant' = ScoringDisplay(v).relevant
               /\ run' = Diagnose([run EXCEPT !.scored = TRUE], ScoringDisplay(v).diag)
       ELSE UNCHANGED <<run, relevant>>
    /\ pc' = "sentiment"
    /\ UNCHANGED <<df, vectorizer, lda, topic_words, artifact, cache, pureVars>>

\* lines 199-220: sentiment analysis, the last section of the script
Sentiment ==
    /\ pc = "sentiment"
    /\ run' = [run EXCEPT !.sentiment = TRUE]
    /\ pc' = "done"
    /\ UNCHANGED <<df, vectorizer, lda, topic_words, artifact, cache, relevant, pureVars>>

-----------------------------------------------------------------------------
(* What happens to the file and the process between runs *)

\* the operator deletes topic_model.pkl by hand
DeleteArtifact ==
    /\ pc \in Between
    /\ artifact.exists
    /\ artifact' = Absent
    /\ UNCHANGED <<pc, df, vectorizer, lda, topic_words, cache, run, relevant, pureVars>>

\* the file becomes unreadable (truncated, or pickled by other library versions)
CorruptArtifact ==
    /\ pc \in Between
    /\ artifact.exists /\ artifact.readable
    /\ artifact' = Corrupt
    /\ UNCHANGED <<pc, df, vectorizer, lda, topic_words, cache, run, relevant, pureVars>>

\* the server process is restarted: the resource cache starts empty
RestartProcess ==
    /\ pc \in Between
    /\ cache.filled
    /\ cache' = EmptyCache
    /\ pc' = "idle"
    /\ UNCHANGED <<df, vectorizer, lda, topic_words, artifact, run, relevant, pureVars>>

Environment == DeleteArtifact \/ CorruptArtifact \/ RestartProcess

-----------------------------------------------------------------------------
(* Spec: the runs of the script *)

Init ==
    /\ pc = "idle"
    /\ df = NoDf
    /\ vectorizer = None
    /\ lda = None
    /\ topic_words = None
    /\ artifact = Absent
    /\ cache = EmptyCache
    /\ run = FreshRun
    /\ relevant = <<>>
    /\ doc_topics = <<>>
    /\ thresholds = <<>>
    /\ counts = <<>>
    /\ text = <<>>
    /\ once = <<>>
    /\ twice = <<>>
    /\ components = <<>>
    /\ n_top_words = 0
    /\ words = <<>>

Next ==
    \/ StartRun
    \/ SchemaCheck
    \/ FirstSections
    \/ TopicTrain
    \/ TopicLoad
    \/ Scoring
    \/ Sentiment
    \/ DeleteArtifact
    \/ CorruptArtifact
    \/ RestartProcess

Spec == Init /\ [][Next]_vars

-----------------------------------------------------------------------------
(* Claims checked under Spec *)

\* A step of the script itself, as opposed to a step of its environment
RunStep == pc \notin Between \/ pc' = "schema"

C2_FailedTrainingSkipsSaveAndScore ==
    (run.branch = "train" /\ df.corpus \in {"value_error", "empty_vocabulary"}) =>
        /\ vectorizer = None /\ lda = None
        /\ run.saves = 0
        /\ ~artifact.exists
        /\ ~run.scored
        /\ relevant = <<>>
        /\ pc # "aborted"
        /\ "error_failed_to_train" \in run.diag
        /\ (df.corpus = "value_error") => ("error_in_vectorization" \in run.diag)
        /\ (df.corpus = "empty_vocabulary") => ("error_empty_vocabulary" \in run.diag)
        /\ (pc = "done") => run.sentiment

C2_Witness ==
    /\ pc = "done"
    /\ run.branch = "train"
    /\ df.corpus = "value_error"
    /\ run.sentiment
    /\ ~artifact.exists

\* C3: no failure inside a section aborts the run: every run that entered
\* the analysis sections and is over has executed the sentiment section.
C3_NoSectionFailureAbortsRun ==
    /\ pc # "aborted"
    /\ (run.sections /\ pc \in Between) => run.sentiment

\* C7: a dataset without the speech_in_text column is reported and nothing
\* else happens in that run: no section, no training, no load, no save, no
\* read of the artifact, no scoring.
C7_MissingColumnHalts ==
    (df.loaded /\ ~df.has_column /\ pc # "schema") =>
        /\ pc \in Between
        /\ "error_no_speech_in_text_column" \in run.diag
        /\ ~run.sections
        /\ run.branch = "none"
        /\ run.trained_on = None
        /\ run.loads = 0 /\ run.reads = 0 /\ run.saves = 0
        /\ ~run.scored /\ ~run.sentiment
        /\ vectorizer = None /\ lda = None

C7_Witness ==
    /\ pc = "done"
    /\ df.loaded /\ ~df.has_column
    /\ "error_no_speech_in_text_column" \in run.diag
    /\ artifact.exists

\* C9: a run on the load branch scores with the bundle the artifact holds at
\* that moment.
C9_LoadedBundleIsStoredBundle ==
    (run.branch = "load" /\ pc \in {"score", "sentiment"} /\ artifact.readable) =>
        <<vectorizer, lda, topic_words>> = artifact.bundle

\* C10: the artifact is write-once.  A step of a run changes the artifact, or
\* calls save_model, only when the artifact was absent and the training of
\* that run succeeded; a run that finds the artifact present leaves it as it is.
C10_ArtifactWriteOnce ==
    [][RunStep =>
         /\ artifact.exists => (artifact' = artifact /\ run'.saves <= run.saves)
         /\ (artifact' # artifact \/ run'.saves > run.saves) =>
               /\ ~artifact.exists
               /\ pc = "topic"
               /\ run'.branch = "train"
               /\ vectorizer' # None /\ lda' # None
               /\ run'.saves = 1
               /\ artifact' = Stored(<<vectorizer', lda', topic_words'>>)]_vars

\* a finished load-branch run that scored and left the stored bundle in place
C10_Witness ==
    /\ pc = "done"
    /\ run.branch = "load"
    /\ run.scored
    /\ run.saves = 0
    /\ artifact.readable
    /\ artifact.bundle = <<vectorizer, lda, topic_words>>

-----------------------------------------------------------------------------
(* SpecScore: the scoring block applied to every strength vector *)

InitScore ==
    /\ pc = "score_input"
    /\ doc_topics \in TopicVectors
    /\ thresholds \in Strengths \X Strengths
    /\ counts = <<>>
    /\ relevant = <<>>
    /\ run = FreshRun
    /\ df = NoDf
    /\ vectorizer = None
    /\ lda = None
    /\ topic_words = None
    /\ artifact = Absent
    /\ cache = EmptyCache
    /\ text = <<>>
    /\ once = <<>>
    /\ twice = <<>>
    /\ components = <<>>
    /\ n_top_words = 0
    /\ words = <<>>

\* lines 189-197 on doc_topics, and lines 190-194 with each of the two thresholds
ScoreBlock ==
    /\ pc = "score_input"
    /\ relevant' = ScoringDisplay(doc_topics).relevant
    /\ run' = Diagnose([run EXCEPT !.scored = TRUE], ScoringDisplay(doc_topics).diag)
    /\ counts' = <<Len(ScoreTopics(doc_topics, thresholds[1])),
                   Len(ScoreTopics(doc_topics, thresholds[2]))>>
    /\ pc' = "scored"
    /\ UNCHANGED <<doc_topics, thresholds, df, vectorizer, lda, topic_words,
                   artifact, cache, normVars, wordVars>>

NextScore == ScoreBlock

SpecScore == InitScore /\ [][NextScore]_vars

Min(a, b) == IF a < b THEN a ELSE b

Qualifying == {i \in 1..Len(doc_topics) : doc_topics[i] > RelevanceThreshold}
ShownTopics == {relevant[j][1] : j \in 1..Len(relevant)}

\* C4: the scoring step shows exactly the topics strictly above the threshold
\* 0.1, strongest first, cut to at most 3: every entry is a topic with its
\* own strength, above the threshold; no topic is shown twice; the number
\* shown is min(3, number above the threshold); strengths do not increase
\* along the list; every topic shown is at least as strong as every topic
\* above the threshold that is not shown; and the list is empty, with the
\* "no strong topics" message, exactly when no topic is above the threshold.
C4_ScoringShowsStrongestAboveThreshold ==
    (pc = "scored") =>
        /\ \A j \in 1..Len(relevant) :
              /\ relevant[j][1] \in 1..Len(doc_topics)
              /\ relevant[j][2] = doc_topics[relevant[j][1]]
              /\ relevant[j][2] > RelevanceThreshold
        /\ Cardinality(ShownTopics) = Len(relevant)
        /\ Len(relevant) = Min(TopK, Cardinality(Qualifying))
        /\ \A j, k \in 1..Len(relevant) : (j < k) => (relevant[j][2] >= relevant[k][2])
        /\ \A i \in ShownTopics : \A o \in (1..Len(doc_topics)) \ ShownTopics :
              (doc_topics[o] > RelevanceThreshold) => (doc_topics[i] >= doc_topics[o])
        /\ (relevant = <<>>) <=> (Qualifying = {})
        /\ ("no_strong_topics" \in run.diag) <=> (Qualifying = {})
        /\ run.scored

\* three topics shown, one topic exactly at the threshold left out
C4_Witness ==
    /\ pc = "scored"
    /\ Len(relevant) = TopK
    /\ \E i \in 1..Len(doc_topics) : doc_topics[i] = RelevanceThreshold
    /\ \E j \in 1..Len(relevant) : relevant[j][2] > relevant[Len(relevant)][2]

\* C5: for one strength vector and thresholds t1 <= t2, scoring with t2
\* returns no more topics than scoring with t1 (both cut to the top 3).
C5_ThresholdMonotone ==
    (pc = "scored" /\ thresholds[1] <= thresholds[2]) => (counts[2] <= counts[1])

\* the higher threshold returns fewer topics, still some
C5_Witness ==
    /\ pc = "scored"
    /\ thresholds[1] < thresholds[2]
    /\ 0 < counts[2]
    /\ counts[2] < counts[1]

-----------------------------------------------------------------------------
(* preprocess_text, lines 24-54, on texts given as sequences of tokens *)

MaxTextLen == 3      \* tokens in an input text

\* the tokens an input text is made of
RawTokens ==
    {"(00:01)", ",", "The", "the", "economy", "countries", "country", "obama", "france"}

Texts == UNION {[1..n -> RawTokens] : n \in 0..MaxTextLen}

\* line 43: re.sub(r'\(\d{2}:\d{2}\)', '', text)
IsTimestamp(tok) == tok = "(00:01)"

\* line 44: text.lower()
Lower(tok) == IF tok = "The" THEN "the" ELSE tok

\* line 46: the entity type the spaCy pipeline gives a token
EntType(tok) ==
    CASE tok = "obama" -> "PERSON"
      [] tok = "france" -> "GPE"
      [] OTHER -> ""

\* line 50: simple_preprocess keeps alphabetic tokens of 2 to 15 characters
IsWord(tok) == tok \notin {",", "(00:01)"}

\* lines 33-37: gensim STOPWORDS (three of its members) and the additions
custom_stopwords ==
    {"the", "is", "and"} \cup
    {"look", "lot", "going", "said", "know", "thing", "well", "actually", "thank",
     "us", "think", "just", "people", "country", "ve", "don", "ll"}

\* line 51: WordNetLemmatizer.lemmatize(token), noun lemmas
Lemmatize(tok) ==
    IF tok = "countries" THEN "country" ELSE tok

\* lines 43-54
preprocess_text(t) ==
    LET stripped == SelectSeq(t, LAMBDA tok : ~IsTimestamp(tok))
        lowered  == [i \in 1..Len(stripped) |-> Lower(stripped[i])]
        kept     == SelectSeq(lowered, LAMBDA tok : EntType(tok) \notin {"PERSON", "GPE"})
        tokens   == SelectSeq(kept, IsWord)
        filtered == SelectSeq(tokens, LAMBDA tok : tok \notin custom_stopwords)
    IN  [i \in 1..Len(filtered) |-> Lemmatize(filtered[i])]

InitNorm ==
    /\ pc = "norm_input"
    /\ text \in Texts
    /\ once = <<>>
    /\ twice = <<>>
    /\ doc_topics = <<>>
    /\ thresholds = <<>>
    /\ counts = <<>>
    /\ relevant = <<>>
    /\ run = FreshRun
    /\ df = NoDf
    /\ vectorizer = None
    /\ lda = None
    /\ topic_words = None
    /\ artifact = Absent
    /\ cache = EmptyCache
    /\ components = <<>>
    /\ n_top_words = 0
    /\ words = <<>>

\* preprocess_text(text)
Normalize ==
    /\ pc = "norm_input"
    /\ once' = preprocess_text(text)
    /\ pc' = "normalized"
    /\ UNCHANGED <<text, twice, df, vectorizer, lda, topic_words, artifact, cache,
                   run, relevant, scoreVars, wordVars>>

\* preprocess_text applied to its own output
NormalizeAgain ==
    /\ pc = "normalized"
    /\ twice' = preprocess_text(once)
    /\ pc' = "normalized_twice"
    /\ UNCHANGED <<text, once, df, vectorizer, lda, topic_words, artifact, cache,
                   run, relevant, scoreVars, wordVars>>

NextNorm == Normalize \/ NormalizeAgain

SpecNorm == InitNorm /\ [][NextNorm]_vars

\* C6: preprocess_text is idempotent: a second pass over its output changes
\* nothing.
C6_NormalizationIdempotent ==
    (pc = "normalized_twice") => (twice = once)

-----------------------------------------------------------------------------
(* get_topic_words, lines 88-93 *)

NumTopics == 2       \* rows of model.components_
NumFeatures == 2     \* size of the vocabulary
MaxTopWords == 3     \* n_top_words ranges over 0..MaxTopWords

WeightValues == {0, 1, 2}

FeatureNamePool == <<"economy", "trade", "policy", "growth", "tax", "job">>

\* vectorizer.get_feature_names_out(), line 174
feature_names == SubSeq(FeatureNamePool, 1, NumFeatures)

IndexOrders(n) ==
    {p \in [1..n -> 1..n] : \A i, j \in 1..n : (i # j) => (p[i] # p[j])}

\* topic.argsort(): the feature indices by ascending weight; numpy leaves the
\* order of equal weights open, so every such order is a possible result
ArgSorts(topic) ==
    {p \in IndexOrders(Len(topic)) :
        \A i, j \in 1..Len(topic) : (i < j) => (topic[p[i]] <= topic[p[j]])}

SliceLastReversedShort(a, n) ==
    LET len   == Len(a)
        count == IF n - 1 > len THEN len ELSE IF n < 1 THEN 0 ELSE n - 1
    IN  [k \in 1..count |-> a[len - k + 1]]

\* a[:-n - 1:-1]: from the last element backwards, stopping before the
\* (0-based) index len - n - 1, or running to the front when that is negative
SliceLastReversed(a, n) ==
    LET len   == Len(a)
        stop  == IF len - n - 1 < 0 THEN -1 ELSE len - n - 1
        count == (len - 1) - stop
    IN  [k \in 1..count |-> a[len - k + 1]]

\* line 91: the names of the sliced indices
TopWordsOf(order, n) ==
    LET top == SliceLastReversed(order, n)
    IN  [k \in 1..Len(top) |-> feature_names[top[k]]]

\* lines 89-93: one list per row of components_, appended in row order
RECURSIVE TopicWordLists(_, _, _)
TopicWordLists(comp, n, upto) ==
    IF upto = 0
    THEN {<<>>}
    ELSE {Append(w, TopWordsOf(order, n)) :
             w \in TopicWordLists(comp, n, upto - 1), order \in ArgSorts(comp[upto])}

get_topic_words(comp, n) == TopicWordLists(comp, n, Len(comp))

InitWords ==
    /\ pc = "words_input"
    /\ components \in [1..NumTopics -> [1..NumFeatures -> WeightValues]]
    /\ n_top_words \in 0..MaxTopWords
    /\ words = <<>>
    /\ text = <<>>
    /\ once = <<>>
    /\ twice = <<>>
    /\ doc_topics = <<>>
    /\ thresholds = <<>>
    /\ counts = <<>>
    /\ relevant = <<>>
    /\ run = FreshRun
    /\ df = NoDf
    /\ vectorizer = None
    /\ lda = None
    /\ topic_words = None
    /\ artifact = Absent
    /\ cache = EmptyCache

\* topic_words = get_topic_words(lda, feature_names, n_top_words)
GetTopicWords ==
    /\ pc = "words_input"
    /\ words' \in get_topic_words(components, n_top_words)
    /\ pc' = "words_returned"
    /\ UNCHANGED <<components, n_top_words, df, vectorizer, lda, topic_words,
                   artifact, cache, run, relevant, scoreVars, normVars>>

NextWords == GetTopicWords

SpecWords == InitWords /\ [][NextWords]_vars

FeatureIndex(name) == CHOOSE i \in 1..NumFeatures : feature_names[i] = name

\* C8: get_topic_words returns one list per topic, in topic order; the list of
\* a topic holds min(n_top_words, vocabulary size) distinct terms of the
\* vocabulary, by non-increasing weight in that topic, and no term left out
\* weighs strictly more than a term in the list.
C8_TopicWordsAreTopWeighted ==
    (pc = "words_returned") =>
        /\ Len(words) = NumTopics
        /\ \A t \in 1..NumTopics :
              LET w      == words[t]
                  weight == [j \in 1..Len(w) |-> components[t][FeatureIndex(w[j])]]
                  inside == {FeatureIndex(w[j]) : j \in 1..Len(w)}
              IN  /\ Len(w) = Min(n_top_words, NumFeatures)
                  /\ \A j \in 1..Len(w) : \E i \in 1..NumFeatures : w[j] = feature_names[i]
                  /\ Cardinality(inside) = Len(w)
                  /\ \A j, k \in 1..Len(w) : (j < k) => (weight[j] >= weight[k])
                  /\ \A i \in inside : \A o \in (1..NumFeatures) \ inside :
                        components[t][o] <= components[t][i]

\* a proper cut: fewer words asked for than the vocabulary has, in a topic
\* whose weights differ, and the two topics answered differently
C8_Witness ==
    /\ pc = "words_returned"
    /\ 0 < n_top_words /\ n_top_words < NumFeatures
    /\ \E t \in 1..NumTopics : \E i, j \in 1..NumFeatures :
          components[t][i] < components[t][j]
    /\ words[1] # words[2]

====
